---- MODULE Spec2Model ----
(***************************************************************************)
(* TemporalGraph (src/backend/graph_logic.py): the windowed static         *)
(* expansion ("differential"), eternal twins, and the tree-width measures. *)
(* A state is one TemporalGraph object plus the last method call made on   *)
(* it and what that call returned or raised.                               *)
(***************************************************************************)
EXTENDS Integers, Sequences, FiniteSets, TLC

\* Bounds of the model (inputs are drawn from these).
MaxVertices == 3
MaxLifetime == 2
MaxEdges == 2

VARIABLES
    vertices,   \* self.vertices: list of vertex ids
    snapshots,  \* self.snapshots: list of edge lists, each edge a tuple <<u, v>>
    call,       \* the last method call: [op, t, delta]
    ret,        \* its outcome: [exc, info, value]
    evals       \* per-window tree-width computations made by the last call

vars == <<vertices, snapshots, call, ret, evals>>

----------------------------------------------------------------------------
\* Sequence helpers

SeqToSet(s) == {s[i] : i \in 1..Len(s)}

IndexOf(s, x) == CHOOSE i \in 1..Len(s) : s[i] = x /\ \A j \in 1..(i - 1) : s[j] # x

RECURSIVE MaxOfSeq(_)
MaxOfSeq(s) ==
    IF Len(s) = 1 THEN s[1]
    ELSE LET m == MaxOfSeq(Tail(s)) IN IF s[1] >= m THEN s[1] ELSE m

Min2(a, b) == IF a <= b THEN a ELSE b
Max2(a, b) == IF a >= b THEN a ELSE b

----------------------------------------------------------------------------
\* networkx.Graph as the code uses it: nodes in insertion order, and for each
\* node its neighbours in insertion order (the adjacency dict of dicts).

nx_Graph == [node |-> <<>>, adj |-> [n \in {} |-> <<>>]]

add_node(G, n) ==
    IF n \in DOMAIN G.adj THEN G
    ELSE [node |-> Append(G.node, n), adj |-> G.adj @@ (n :> <<>>)]

add_edge(G, u, v) ==
    LET G1 == add_node(add_node(G, u), v)
        a1 == IF v \in SeqToSet(G1.adj[u]) THEN G1.adj
              ELSE [G1.adj EXCEPT ![u] = Append(@, v)]
        a2 == IF u \in SeqToSet(a1[v]) THEN a1
              ELSE [a1 EXCEPT ![v] = Append(@, u)]
    IN [node |-> G1.node, adj |-> a2]

RECURSIVE add_nodes_from(_, _)
add_nodes_from(G, ns) ==
    IF ns = <<>> THEN G ELSE add_nodes_from(add_node(G, Head(ns)), Tail(ns))

RECURSIVE add_edges_from(_, _)
add_edges_from(G, es) ==
    IF es = <<>> THEN G
    ELSE add_edges_from(add_edge(G, Head(es)[1], Head(es)[2]), Tail(es))

\* G.edges(): each edge once, reported from the endpoint that comes first in
\* node order, neighbours in adjacency order.
RECURSIVE edges_from(_, _)
edges_from(G, i) ==
    IF i > Len(G.node) THEN <<>>
    ELSE LET n == G.node[i]
             nb == SelectSeq(G.adj[n], LAMBDA m : IndexOf(G.node, m) >= i)
         IN [k \in 1..Len(nb) |-> <<n, nb[k]>>] \o edges_from(G, i + 1)

edges(G) == edges_from(G, 1)

\* Variant: the closed neighbourhood (u counted among its own neighbours).
neighbors_closed(G, u) == SeqToSet(G.adj[u]) \cup {u}

neighbors(G, u) == SeqToSet(G.adj[u])

----------------------------------------------------------------------------
\* Outcomes of a call

Return(v) == [exc |-> "none", info |-> <<>>, value |-> v]
Raise(kind, info) == [exc |-> kind, info |-> info, value |-> "none"]

----------------------------------------------------------------------------
\* TemporalGraph

lifetime == Len(snapshots)

\* Variant: an out-of-range index clamped to the nearest snapshot.
get_snapshot_graph_clamped(t) ==
    LET G == add_nodes_from(nx_Graph, vertices)
        c == IF t < 0 THEN 0 ELSE IF t >= Len(snapshots) THEN Len(snapshots) - 1 ELSE t
    IN IF Len(snapshots) > 0
       THEN add_edges_from(G, snapshots[c + 1])
       ELSE G

get_snapshot_graph(t) ==
    LET G == add_nodes_from(nx_Graph, vertices)
    IN IF 0 <= t /\ t < lifetime
       THEN add_edges_from(G, snapshots[t + 1])
       ELSE G

\* One pass of the loop over time in compute_differential.
step_nodes(time) == [i \in 1..Len(vertices) |-> <<vertices[i], time>>]

\* Variant: the far endpoint of a black edge placed one step later.
step_black_skewed(time) ==
    LET es == edges(get_snapshot_graph(time))
    IN [k \in 1..Len(es) |-> <<<<es[k][1], time>>, <<es[k][2], time + 1>>>>]

step_black(time) ==
    LET es == edges(get_snapshot_graph(time))
    IN [k \in 1..Len(es) |-> <<<<es[k][1], time>>, <<es[k][2], time>>>>]

\* Variant: red edges emitted after the last time of the window too.
step_red_past_end(time, last) ==
    IF time <= last
    THEN [i \in 1..Len(vertices) |-> <<<<vertices[i], time>>, <<vertices[i], time + 1>>>>]
    ELSE <<>>

step_red(time, last) ==
    IF time < last
    THEN [i \in 1..Len(vertices) |-> <<<<vertices[i], time>>, <<vertices[i], time + 1>>>>]
    ELSE <<>>

RECURSIVE differential_loop(_, _, _)
differential_loop(time, last, acc) ==
    IF time > last THEN acc
    ELSE differential_loop(time + 1, last,
            [nodes       |-> acc.nodes \o step_nodes(time),
             black_edges |-> acc.black_edges \o step_black(time),
             red_edges   |-> acc.red_edges \o step_red(time, last)])

\* Variant: the upper end of the window checked with > instead of >=.
invalid_window_off_by_one(t, delta) == t < 0 \/ delta < 1 \/ t + delta - 1 > Len(snapshots)

invalid_window(t, delta) == t < 0 \/ delta < 1 \/ t + delta - 1 >= lifetime

compute_differential(t, delta) ==
    IF invalid_window(t, delta)
    THEN Raise("ValueError", [what |-> "window", t |-> t, delta |-> delta, lifetime |-> lifetime])
    ELSE Return(differential_loop(t, t + delta - 1,
                    [nodes |-> <<>>, black_edges |-> <<>>, red_edges |-> <<>>]))

compute_static_expansion == compute_differential(0, lifetime)

snapshot_edge_counts == [i \in 1..Len(snapshots) |-> Len(snapshots[i])]

canonical_edge(e) == <<Min2(e[1], e[2]), Max2(e[1], e[2])>>

union_graph_edges ==
    UNION {{canonical_edge(snapshots[i][k]) : k \in 1..Len(snapshots[i])} :
           i \in 1..Len(snapshots)}

----------------------------------------------------------------------------
\* Eternal twins

\* itertools.combinations(self.vertices, 2): index pairs i < j, lexicographic.
RECURSIVE combinations_from(_, _)
combinations_from(i, j) ==
    IF i >= Len(vertices) THEN <<>>
    ELSE IF j > Len(vertices) THEN combinations_from(i + 1, i + 2)
    ELSE <<<<vertices[i], vertices[j]>>>> \o combinations_from(i, j + 1)

combinations2 == combinations_from(1, 2)

\* Variant: no break, so the last snapshot alone decides.
is_twin_last_only(u, v, t) ==
    IF lifetime = 0 THEN TRUE
    ELSE LET G_t == get_snapshot_graph(lifetime - 1)
         IN neighbors(G_t, u) = neighbors(G_t, v)

\* The inner loop over t with its break on the first differing snapshot.
RECURSIVE is_twin_from(_, _, _)
is_twin_from(u, v, t) ==
    IF t >= lifetime THEN TRUE
    ELSE LET G_t == get_snapshot_graph(t)
         IN IF neighbors(G_t, u) # neighbors(G_t, v) THEN FALSE
            ELSE is_twin_from(u, v, t + 1)

find_eternal_twins ==
    SelectSeq(combinations2, LAMBDA p : is_twin_from(p[1], p[2], 0))

----------------------------------------------------------------------------
\* Tree-width: networkx.algorithms.approximation.treewidth_min_degree, as
\* called at graph_logic.py:158 (MinDegreeHeuristic + treewidth_decomp).

differential_as_nx(diff) ==
    add_edges_from(add_edges_from(add_nodes_from(nx_Graph, diff.nodes),
                                  diff.black_edges), diff.red_edges)

\* The heap holds entries <<degree, unique id, node>>; heappop takes the least.
heap_min(heap) ==
    CHOOSE e \in heap : \A f \in heap : e[1] < f[1] \/ (e[1] = f[1] /\ e[2] <= f[2])

\* heappush of the current degree of every node of update_nodes. Python
\* iterates that set in hash order; here it is taken in node order.
RECURSIVE push_updates(_, _, _, _)
push_updates(graph, h, order, upd) ==
    IF order = <<>> THEN h
    ELSE IF Head(order) \in upd
         THEN push_updates(graph,
                  [heap |-> h.heap \cup {<<Cardinality(graph[Head(order)]), h.count, Head(order)>>},
                   count |-> h.count + 1],
                  Tail(order), upd)
         ELSE push_updates(graph, h, Tail(order), upd)

\* MinDegreeHeuristic.best_node's pop loop: skip outdated entries, stop (None)
\* when the graph left is complete or the heap is empty.
RECURSIVE pop_best(_, _)
pop_best(graph, heap) ==
    IF heap = {} THEN [node |-> "None", heap |-> heap]
    ELSE LET e == heap_min(heap)
             rest == heap \ {e}
         IN IF e[3] \notin DOMAIN graph \/ Cardinality(graph[e[3]]) # e[1]
            THEN pop_best(graph, rest)
            ELSE IF e[1] = Cardinality(DOMAIN graph) - 1
                 THEN [node |-> "None", heap |-> rest]
                 ELSE [node |-> <<e[3]>>, heap |-> rest]

\* treewidth_decomp's elimination loop: connect the neighbours of the chosen
\* node pairwise, push (node, nbrs) on the stack, remove the node.
RECURSIVE eliminate(_, _, _, _, _)
eliminate(graph, h, order, upd, node_stack) ==
    LET h1 == push_updates(graph, h, order, upd)
        best == pop_best(graph, h1.heap)
    IN IF best.node = "None"
       THEN [graph |-> graph, node_stack |-> node_stack]
       ELSE LET elim_node == best.node[1]
                nbrs == graph[elim_node]
                rest == DOMAIN graph \ {elim_node}
                graph2 == [u \in rest |->
                              IF u \in nbrs
                              THEN (graph[u] \cup (nbrs \ {u})) \ {elim_node}
                              ELSE graph[u]]
            IN eliminate(graph2, [heap |-> best.heap, count |-> h1.count],
                         order, nbrs, Append(node_stack, nbrs))

RECURSIVE initial_heap(_, _, _)
initial_heap(graph, order, k) ==
    IF k > Len(order) THEN {}
    ELSE {<<Cardinality(graph[order[k]]), k - 1, order[k]>>} \cup initial_heap(graph, order, k + 1)

RECURSIVE bags_width(_, _)
bags_width(node_stack, treewidth) ==
    IF node_stack = <<>> THEN treewidth
    ELSE bags_width(SubSeq(node_stack, 1, Len(node_stack) - 1),
                    Max2(treewidth, Cardinality(node_stack[Len(node_stack)] ) + 1 - 1))

treewidth_min_degree(G) ==
    LET graph == [n \in DOMAIN G.adj |-> SeqToSet(G.adj[n]) \ {n}]
        h0 == [heap |-> initial_heap(graph, G.node, 1), count |-> Len(G.node)]
        done == eliminate(graph, h0, G.node, {}, <<>>)
        first_bag == DOMAIN done.graph
    IN bags_width(done.node_stack, Cardinality(first_bag) - 1)

tree_width_of_differential(t, delta) ==
    LET diff == compute_differential(t, delta)
    IN IF diff.exc # "none" THEN diff
       ELSE Return(treewidth_min_degree(differential_as_nx(diff.value)))

\* Variant: the loop stops one window short.
differential_tree_width_short(delta) ==
    IF delta < 1 \/ delta > lifetime
    THEN [out |-> Raise("ValueError", [what |-> "delta", delta |-> delta, lifetime |-> lifetime]),
          evals |-> 0]
    ELSE LET n == lifetime - delta
             tw == [i \in 1..n |-> tree_width_of_differential(i - 1, delta)]
             per_t == [i \in 1..n |-> <<i - 1, tw[i].value>>]
             dtw == IF per_t # <<>> THEN MaxOfSeq([i \in 1..n |-> per_t[i][2]]) ELSE 0
         IN [out |-> Return([dtw |-> dtw, per_t |-> per_t]), evals |-> n]

\* Variant: the range check without its lower bound.
differential_tree_width_no_lower(delta) ==
    IF delta > lifetime
    THEN [out |-> Raise("ValueError", [what |-> "delta", delta |-> delta, lifetime |-> lifetime]),
          evals |-> 0]
    ELSE LET n == lifetime - delta + 1
             tw == [i \in 1..n |-> tree_width_of_differential(i - 1, delta)]
             failed == {i \in 1..n : tw[i].exc # "none"}
             per_t == [i \in 1..n |-> <<i - 1, tw[i].value>>]
             dtw == IF per_t # <<>> THEN MaxOfSeq([i \in 1..n |-> per_t[i][2]]) ELSE 0
         IN IF failed # {}
            THEN LET k == CHOOSE i \in failed : \A j \in failed : i <= j
                 IN [out |-> tw[k], evals |-> k]
            ELSE [out |-> Return([dtw |-> dtw, per_t |-> per_t]), evals |-> n]

\* differential_tree_width: the range check, then one call of
\* tree_width_of_differential per t in range(lifetime - delta + 1), stopping
\* at the first that raises; evals counts the calls made.
differential_tree_width(delta) ==
    IF delta < 1 \/ delta > lifetime
    THEN [out |-> Raise("ValueError", [what |-> "delta", delta |-> delta, lifetime |-> lifetime]),
          evals |-> 0]
    ELSE LET n == lifetime - delta + 1
             tw == [i \in 1..n |-> tree_width_of_differential(i - 1, delta)]
             failed == {i \in 1..n : tw[i].exc # "none"}
             per_t == [i \in 1..n |-> <<i - 1, tw[i].value>>]
             dtw == IF per_t # <<>> THEN MaxOfSeq([i \in 1..n |-> per_t[i][2]]) ELSE 0
         IN IF failed # {}
            THEN LET k == CHOOSE i \in failed : \A j \in failed : i <= j
                 IN [out |-> tw[k], evals |-> k]
            ELSE [out |-> Return([dtw |-> dtw, per_t |-> per_t]), evals |-> n]

\* max_degree_differential: the degree dict and the += 1 per edge endpoint.
RECURSIVE count_degrees(_, _)
count_degrees(degree, es) ==
    IF es = <<>> THEN degree
    ELSE LET d1 == [degree EXCEPT ![Head(es)[1]] = @ + 1]
             d2 == [d1 EXCEPT ![Head(es)[2]] = @ + 1]
         IN count_degrees(d2, Tail(es))

max_degree_differential(t, delta) ==
    LET diff == compute_differential(t, delta)
    IN IF diff.exc # "none" THEN diff
       ELSE LET degree == count_degrees([n \in SeqToSet(diff.value.nodes) |-> 0],
                                        diff.value.black_edges \o diff.value.red_edges)
                vals == {degree[n] : n \in DOMAIN degree}
            IN Return(IF DOMAIN degree # {} THEN CHOOSE m \in vals : \A x \in vals : x <= m ELSE 0)

----------------------------------------------------------------------------
\* Inputs: simple undirected snapshots over the vertex list (the module
\* docstring and find_eternal_twins assume simple graphs). An edge list is
\* written as generate_random writes it (pairs u < v in combinations order),
\* or the other way round (reversed, every pair as (v, u)), which from_dict
\* accepts as well.

VertexLists == {[i \in 1..n |-> i - 1] : n \in 0..MaxVertices}

RECURSIVE all_pairs_from(_, _, _)
all_pairs_from(vs, i, j) ==
    IF i >= Len(vs) THEN <<>>
    ELSE IF j > Len(vs) THEN all_pairs_from(vs, i + 1, i + 2)
    ELSE <<<<vs[i], vs[j]>>>> \o all_pairs_from(vs, i, j + 1)

Flipped(es) == [k \in 1..Len(es) |-> <<es[Len(es) + 1 - k][2], es[Len(es) + 1 - k][1]>>]

EdgeLists(vs, budget) ==
    LET pairs == all_pairs_from(vs, 1, 2)
    IN {SelectSeq(pairs, LAMBDA p : p \in S) :
        S \in {T \in SUBSET SeqToSet(pairs) : Cardinality(T) <= budget}}

RECURSIVE SnapshotListsOf(_, _, _)
SnapshotListsOf(vs, tau, budget) ==
    IF tau = 0 THEN {<<>>}
    ELSE UNION {{<<es>> \o rest : rest \in SnapshotListsOf(vs, tau - 1, budget - Len(es))} :
                es \in EdgeLists(vs, budget)}

SnapshotLists(vs) ==
    LET sorted == UNION {SnapshotListsOf(vs, tau, MaxEdges) : tau \in 0..MaxLifetime}
    IN sorted \cup {[i \in 1..Len(ss) |-> Flipped(ss[i])] : ss \in sorted}

TArgs == -1..MaxLifetime
DeltaArgs == 0..(MaxLifetime + 1)

Init ==
    /\ vertices \in VertexLists
    /\ snapshots \in SnapshotLists(vertices)
    /\ call = [op |-> "idle", t |-> 0, delta |-> 0]
    /\ ret = Return("none")
    /\ evals = 0

\* A caller makes a call when it holds no result, or makes the call it just
\* made once more; the object is shared by all calls.
MayCall(c) == call.op = "idle" \/ call = c

CallGetSnapshotGraph(t) ==
    /\ MayCall([op |-> "get_snapshot_graph", t |-> t, delta |-> 0])
    /\ call' = [op |-> "get_snapshot_graph", t |-> t, delta |-> 0]
    /\ ret' = Return(get_snapshot_graph(t))
    /\ evals' = 0
    /\ UNCHANGED <<vertices, snapshots>>

CallComputeDifferential(t, delta) ==
    /\ MayCall([op |-> "compute_differential", t |-> t, delta |-> delta])
    /\ call' = [op |-> "compute_differential", t |-> t, delta |-> delta]
    /\ ret' = compute_differential(t, delta)
    /\ evals' = 0
    /\ UNCHANGED <<vertices, snapshots>>

CallComputeStaticExpansion ==
    /\ MayCall([op |-> "compute_static_expansion", t |-> 0, delta |-> 0])
    /\ call' = [op |-> "compute_static_expansion", t |-> 0, delta |-> 0]
    /\ ret' = compute_static_expansion
    /\ evals' = 0
    /\ UNCHANGED <<vertices, snapshots>>

CallFindEternalTwins ==
    /\ MayCall([op |-> "find_eternal_twins", t |-> 0, delta |-> 0])
    /\ call' = [op |-> "find_eternal_twins", t |-> 0, delta |-> 0]
    /\ ret' = Return(find_eternal_twins)
    /\ evals' = 0
    /\ UNCHANGED <<vertices, snapshots>>

CallTreeWidthOfDifferential(t, delta) ==
    /\ MayCall([op |-> "tree_width_of_differential", t |-> t, delta |-> delta])
    /\ call' = [op |-> "tree_width_of_differential", t |-> t, delta |-> delta]
    /\ ret' = tree_width_of_differential(t, delta)
    /\ evals' = 0
    /\ UNCHANGED <<vertices, snapshots>>

CallDifferentialTreeWidth(delta) ==
    /\ MayCall([op |-> "differential_tree_width", t |-> 0, delta |-> delta])
    /\ call' = [op |-> "differential_tree_width", t |-> 0, delta |-> delta]
    /\ LET r == differential_tree_width(delta)
       IN ret' = r.out /\ evals' = r.evals
    /\ UNCHANGED <<vertices, snapshots>>

CallMaxDegreeDifferential(t, delta) ==
    /\ MayCall([op |-> "max_degree_differential", t |-> t, delta |-> delta])
    /\ call' = [op |-> "max_degree_differential", t |-> t, delta |-> delta]
    /\ ret' = max_degree_differential(t, delta)
    /\ evals' = 0
    /\ UNCHANGED <<vertices, snapshots>>

CallSnapshotEdgeCounts ==
    /\ MayCall([op |-> "snapshot_edge_counts", t |-> 0, delta |-> 0])
    /\ call' = [op |-> "snapshot_edge_counts", t |-> 0, delta |-> 0]
    /\ ret' = Return(snapshot_edge_counts)
    /\ evals' = 0
    /\ UNCHANGED <<vertices, snapshots>>

\* Variant: the edges put in canonical order in place, in self.snapshots.
CallUnionGraphEdgesInPlace ==
    /\ MayCall([op |-> "union_graph_edges", t |-> 0, delta |-> 0])
    /\ call' = [op |-> "union_graph_edges", t |-> 0, delta |-> 0]
    /\ ret' = Return(union_graph_edges)
    /\ evals' = 0
    /\ snapshots' = [i \in 1..Len(snapshots) |->
                        [k \in 1..Len(snapshots[i]) |-> canonical_edge(snapshots[i][k])]]
    /\ UNCHANGED vertices

CallUnionGraphEdges ==
    /\ MayCall([op |-> "union_graph_edges", t |-> 0, delta |-> 0])
    /\ call' = [op |-> "union_graph_edges", t |-> 0, delta |-> 0]
    /\ ret' = Return(union_graph_edges)
    /\ evals' = 0
    /\ UNCHANGED <<vertices, snapshots>>

\* The caller is done with the result.
Discard ==
    /\ call.op # "idle"
    /\ call' = [op |-> "idle", t |-> 0, delta |-> 0]
    /\ ret' = Return("none")
    /\ evals' = 0
    /\ UNCHANGED <<vertices, snapshots>>

Next ==
    \/ \E t \in TArgs : CallGetSnapshotGraph(t)
    \/ \E t \in TArgs, delta \in DeltaArgs : CallComputeDifferential(t, delta)
    \/ CallComputeStaticExpansion
    \/ CallFindEternalTwins
    \/ \E t \in TArgs, delta \in DeltaArgs : CallTreeWidthOfDifferential(t, delta)
    \/ \E delta \in DeltaArgs : CallDifferentialTreeWidth(delta)
    \/ \E t \in TArgs, delta \in DeltaArgs : CallMaxDegreeDifferential(t, delta)
    \/ CallSnapshotEdgeCounts
    \/ CallUnionGraphEdges
    \/ Discard

Spec == Init /\ [][Next]_vars

----------------------------------------------------------------------------
\* What the claims speak of, stated over the stored graph alone.

V == SeqToSet(vertices)
tau == Len(snapshots)
EdgeSet(time) == {{e[1], e[2]} : e \in SeqToSet(snapshots[time + 1])}
OpenNbhd(time, u) == {w \in V : {u, w} \in EdgeSet(time)}
ValidWindow(t, delta) == t >= 0 /\ delta >= 1 /\ t + delta - 1 < tau
Window(t, delta) == t..(t + delta - 1)
AtTime(es, time) == {k \in 1..Len(es) : es[k][1][2] = time}

RECURSIVE SumOver(_, _)
SumOver(f, S) ==
    IF S = {} THEN 0
    ELSE LET x == CHOOSE y \in S : TRUE IN f[x] + SumOver(f, S \ {x})

Returned(op) == call.op = op /\ ret.exc = "none"

\* C1: for a valid window compute_differential returns |V|*delta nodes, as
\* many black edges as the snapshots of the window have edges (per time: the
\* count snapshot_edge_counts reports for that snapshot), and (delta-1)*|V|
\* red edges.
C1_ExpansionCounts ==
    (call.op = "compute_differential" /\ ValidWindow(call.t, call.delta)) =>
        /\ ret.exc = "none"
        /\ Len(ret.value.nodes) = Len(vertices) * call.delta
        /\ \A time \in Window(call.t, call.delta) :
              Cardinality(AtTime(ret.value.black_edges, time)) = snapshot_edge_counts[time + 1]
        /\ Len(ret.value.black_edges) =
              SumOver([time \in Window(call.t, call.delta) |-> Len(snapshots[time + 1])],
                      Window(call.t, call.delta))
        /\ Len(ret.value.red_edges) = (call.delta - 1) * Len(vertices)

C1_Witness ==
    /\ Returned("compute_differential")
    /\ call.delta >= 2
    /\ Len(vertices) >= 3
    /\ Len(ret.value.black_edges) >= 2
    /\ Len(ret.value.red_edges) >= 3

\* C2: for a valid window the nodes are exactly the pairs (v, time) of the
\* window, the black edges exactly the edges of the window's snapshots lifted
\* to their time, the red edges exactly (v,time)-(v,time+1) for the times of
\* the window but the last; every endpoint is a returned node.
C2_ExpansionContent ==
    (call.op = "compute_differential" /\ ValidWindow(call.t, call.delta)) =>
        /\ ret.exc = "none"
        /\ SeqToSet(ret.value.nodes) = {<<v, time>> : v \in V, time \in Window(call.t, call.delta)}
        /\ {{e[1], e[2]} : e \in SeqToSet(ret.value.black_edges)} =
              UNION {{{<<u, time>> : u \in uv} : uv \in EdgeSet(time)} :
                     time \in Window(call.t, call.delta)}
        /\ SeqToSet(ret.value.red_edges) =
              {<<<<v, time>>, <<v, time + 1>>>> :
                  v \in V, time \in call.t..(call.t + call.delta - 2)}
        /\ \A e \in SeqToSet(ret.value.black_edges) \cup SeqToSet(ret.value.red_edges) :
              e[1] \in SeqToSet(ret.value.nodes) /\ e[2] \in SeqToSet(ret.value.nodes)

C2_Witness ==
    /\ Returned("compute_differential")
    /\ call.delta = 2
    /\ call.t + call.delta = tau
    /\ AtTime(ret.value.black_edges, tau - 1) # {}
    /\ ret.value.red_edges # <<>>
    /\ \E i \in 1..Len(snapshots) : \E e \in SeqToSet(snapshots[i]) : e[1] > e[2]

\* C3: an invalid window makes compute_differential raise ValueError carrying
\* t, delta and the lifetime, with no partial expansion; the same error comes
\* out of tree_width_of_differential, max_degree_differential and (for the
\* window (0, tau)) compute_static_expansion.
WindowError(t, delta) ==
    /\ ret.exc = "ValueError"
    /\ ret.info = [what |-> "window", t |-> t, delta |-> delta, lifetime |-> tau]
    /\ ret.value = "none"

C3_InvalidWindowRaises ==
    /\ (/\ call.op \in {"compute_differential", "tree_width_of_differential",
                        "max_degree_differential"}
        /\ ~ValidWindow(call.t, call.delta))
          => WindowError(call.t, call.delta)
    /\ (call.op = "compute_static_expansion" /\ ~ValidWindow(0, tau))
          => WindowError(0, tau)

C3_Witness ==
    /\ call.op = "tree_width_of_differential"
    /\ call.t >= 0
    /\ call.delta >= 1
    /\ call.t < tau
    /\ call.t + call.delta - 1 = tau
    /\ ret.exc = "ValueError"

\* C4: find_eternal_twins returns exactly the unordered pairs of distinct
\* vertices whose open neighbourhoods agree in every snapshot, each once;
\* with no snapshots it returns every pair.
TwinPairs == {{u, v} : u \in V, v \in V} \ {{u} : u \in V}
AreTwins(u, v) == \A time \in 0..(tau - 1) : OpenNbhd(time, u) = OpenNbhd(time, v)

C4_TwinsExact ==
    call.op = "find_eternal_twins" =>
        /\ ret.exc = "none"
        /\ {{p[1], p[2]} : p \in SeqToSet(ret.value)} =
              {uv \in TwinPairs : \A u \in uv, v \in uv : AreTwins(u, v)}
        /\ \A i \in 1..Len(ret.value), j \in 1..Len(ret.value) :
              i # j => {ret.value[i][1], ret.value[i][2]} # {ret.value[j][1], ret.value[j][2]}
        /\ tau = 0 => Len(ret.value) = Cardinality(TwinPairs)

C4_Witness ==
    /\ Returned("find_eternal_twins")
    /\ tau >= 2
    /\ Len(vertices) >= 3
    /\ Len(ret.value) = 1
    /\ \E time \in 0..(tau - 1) : OpenNbhd(time, ret.value[1][1]) # {}

\* C5: two vertices joined by an edge in some snapshot are never returned as
\* a twin pair, in either order.
C5_AdjacentNeverTwins ==
    call.op = "find_eternal_twins" =>
        \A u \in V, v \in V :
            (\E time \in 0..(tau - 1) : {u, v} \in EdgeSet(time)) =>
                <<u, v>> \notin SeqToSet(ret.value) /\ <<v, u>> \notin SeqToSet(ret.value)

C5_Witness ==
    /\ Returned("find_eternal_twins")
    /\ ret.value # <<>>
    /\ tau >= 2
    /\ \E time \in 0..(tau - 1) : EdgeSet(time) # {} /\ EdgeSet(tau - 1 - time) = {}

\* C6: the tree-width of an expansion is never negative, and is 0 when the
\* expansion has no edge.
C6_TreeWidthNonNegative ==
    Returned("tree_width_of_differential") =>
        /\ ret.value >= 0
        /\ (\A time \in Window(call.t, call.delta) : snapshots[time + 1] = <<>>)
              /\ (call.delta = 1 \/ vertices = <<>>) => ret.value = 0

\* C7: for 1 <= delta <= tau, differential_tree_width returns one (t, tw)
\* entry per t = 0..tau-delta in ascending order, tw being the tree-width of
\* the window (t, delta), and dtw the maximum tw of the series.
C7_DtwSeries ==
    (call.op = "differential_tree_width" /\ 1 <= call.delta /\ call.delta <= tau) =>
        /\ ret.exc = "none"
        /\ Len(ret.value.per_t) = tau - call.delta + 1
        /\ \A i \in 1..Len(ret.value.per_t) :
              /\ ret.value.per_t[i][1] = i - 1
              /\ ret.value.per_t[i][2] = tree_width_of_differential(i - 1, call.delta).value
        /\ \E i \in 1..Len(ret.value.per_t) : ret.value.dtw = ret.value.per_t[i][2]
        /\ \A i \in 1..Len(ret.value.per_t) : ret.value.dtw >= ret.value.per_t[i][2]

C7_Witness ==
    /\ Returned("differential_tree_width")
    /\ Len(ret.value.per_t) >= 2
    /\ ret.value.per_t[1][2] # ret.value.per_t[2][2]
    /\ ret.value.dtw >= 1

\* C8 as claimed: get_snapshot_graph fails for t outside [0, tau-1].
C8_OutOfRangeRaises ==
    (call.op = "get_snapshot_graph" /\ ~(0 <= call.t /\ call.t < tau)) => ret.exc # "none"

\* C8 as the code has it: for t outside [0, tau-1] get_snapshot_graph does
\* not raise and returns the graph on the vertex list with no edges.
C8_OutOfRangeEdgeless ==
    (call.op = "get_snapshot_graph" /\ ~(0 <= call.t /\ call.t < tau)) =>
        /\ ret.exc = "none"
        /\ ret.value.node = vertices
        /\ \A n \in DOMAIN ret.value.adj : ret.value.adj[n] = <<>>

C8_Witness ==
    /\ Returned("get_snapshot_graph")
    /\ call.t = -1
    /\ tau >= 1
    /\ snapshots[tau] # <<>>
    /\ ret.value.node # <<>>

\* C9: differential_tree_width raises ValueError for delta < 1 or delta >
\* tau, without computing any per-window tree-width, and returns nothing.
C9_InvalidDeltaRaises ==
    (call.op = "differential_tree_width" /\ (call.delta < 1 \/ call.delta > tau)) =>
        /\ ret.exc = "ValueError"
        /\ evals = 0
        /\ ret.info = [what |-> "delta", delta |-> call.delta, lifetime |-> tau]
        /\ ret.value = "none"

C9_Witness ==
    /\ call.op = "differential_tree_width"
    /\ call.delta = 0
    /\ tau >= 1
    /\ ret.exc = "ValueError"

\* C10: no call, returning or raising, changes the vertices or the snapshots,
\* and a call made again with the same arguments has the same outcome.
C10_ReadOnly ==
    [][/\ vertices' = vertices
       /\ snapshots' = snapshots
       /\ (call' = call => (ret' = ret /\ evals' = evals))]_vars

C10_Witness ==
    /\ Returned("union_graph_edges")
    /\ ret.value # {}
    /\ \E i \in 1..Len(snapshots) : \E e \in SeqToSet(snapshots[i]) : e[1] > e[2]

====
